---- MODULE Spec2Model ----
(***************************************************************************)
(* A model of the Linux backend of findshlibs (src/linux/mod.rs):          *)
(*   - Segment::name, Segment::is_code, SharedLibrary::virtual_memory_bias *)
(*     as operators applied to inputs drawn in InitSeg (SpecSeg);          *)
(*   - SharedLibrary::each / callback / new, driven by the loader's        *)
(*     dl_iterate_phdr, for two concurrent callers (SpecEach);             *)
(*   - SharedLibrary::id, as a step machine over the header table and the  *)
(*     note bytes of the live image (SpecId).                              *)
(*                                                                         *)
(* Pointer-width integers are scaled to PtrBits bits; their arithmetic is  *)
(* the build's: a build with overflow checks panics on overflow, a build   *)
(* without them wraps modulo 2^PtrBits.  The 32-bit note fields stay       *)
(* narrower than a pointer, as on a 64-bit target.  The build with         *)
(* overflow checks is the debug profile, which also aborts on a reference  *)
(* to a misaligned address.                                                *)
(*                                                                         *)
(* The two println! calls of SharedLibrary::new (lines 141-142) write to   *)
(* standard output and panic when the write fails; whether it fails is the *)
(* environment's choice at every callback.                                 *)
(***************************************************************************)
EXTENDS Integers, Sequences, FiniteSets, TLC

\* ------------------------------------------------------------------ bounds
\* Scaled pointer width in bits (usize, isize, the address space).
PtrBits == 7
\* Longest loader list of mapped objects.
MaxObjects == 3
\* Longest program-header table handed to id().
MaxSegs == 2
\* Most note records id() is followed through in one segment.
MaxRecords == 4

PtrMod == 2 ^ PtrBits
UsizeMax == PtrMod - 1
IsizeMax == (PtrMod \div 2) - 1

\* --------------------------------------------------------------- constants
NT_GNU_BUILD_ID == 3
CONTINUE == 0
BREAK == 1
\* The size dl_iterate_phdr passes to the callback: size_of::<dl_phdr_info>().
InfoSize == 64
\* size_of::<Nhdr32>(): three Elf32_Word fields.
NhdrSize == 12

\* libc's ELF segment type constants.
PT_NULL == 0
PT_LOAD == 1
PT_DYNAMIC == 2
PT_INTERP == 3
PT_NOTE == 4
PT_SHLIB == 5
PT_PHDR == 6
PT_TLS == 7
PT_NUM == 8
PT_LOOS == 1610612736
PT_GNU_EH_FRAME == 1685382480
PT_GNU_STACK == 1685382481
PT_GNU_RELRO == 1685382482

None == [some |-> FALSE]
Some(v) == [some |-> TRUE, val |-> v]

VARIABLES
    \* SpecSeg: one program header, one base address, and what the accessors
    \* returned for them.
    phdr, lib_addr, seg_name, seg_is_code, bias,
    \* SpecEach: the loader's list and, per calling thread, the position of
    \* its each() call, the loader's cursor, IterState.panic, the callback's
    \* return codes, the libraries the visitor saw, what each() raised, and
    \* whether the call was stopped while another was between two callbacks.
    objects, pc, cursor, state_panic, rets, visited, raised, stopped_amid,
    \* SpecId: the build profile (overflow checks and debug assertions on,
    \* or both off), the library (addr, headers), the bytes of the image
    \* read so far, the locals of id(), the records it read, and
    \* whether any of its additions wrapped.
    overflow_checks, id_addr, headers, mem,
    id_pc, seg_idx, alignment, offset, end, id_result, read_log, last_read,
    wrapped

seg_vars == <<phdr, lib_addr, seg_name, seg_is_code, bias>>
each_vars == <<objects, pc, cursor, state_panic, rets, visited, raised, stopped_amid>>
id_vars == <<overflow_checks, id_addr, headers, mem,
             id_pc, seg_idx, alignment, offset, end, id_result, read_log, last_read,
             wrapped>>
vars == <<seg_vars, each_vars, id_vars>>

\* ------------------------------------------------------------ Segment view
\* Segment::name
name(h) ==
    CASE h.p_type = PT_NULL -> "NULL"
      [] h.p_type = PT_LOAD -> "LOAD"
      [] h.p_type = PT_DYNAMIC -> "DYNAMIC"
      [] h.p_type = PT_INTERP -> "INTERP"
      [] h.p_type = PT_NOTE -> "NOTE"
      [] h.p_type = PT_SHLIB -> "SHLI"
      [] h.p_type = PT_PHDR -> "PHDR"
      [] h.p_type = PT_TLS -> "TLS"
      [] h.p_type = PT_NUM -> "NUM"
      [] h.p_type = PT_LOOS -> "LOOS"
      [] h.p_type = PT_GNU_EH_FRAME -> "GNU_EH_FRAME"
      [] h.p_type = PT_GNU_STACK -> "GNU_STACK"
      [] h.p_type = PT_GNU_RELRO -> "GNU_RELRO"
      [] OTHER -> "(unknown segment type)"

\* hdr.p_flags & 0x1
IsCodeMutant_FlagsAnd1(flags) == (flags \div 2) % 2
FlagsAnd1(flags) == flags % 2

\* Segment::is_code
is_code(h) ==
    IF h.p_type = PT_LOAD THEN FlagsAnd1(h.p_flags) # 0 ELSE FALSE

\* `self.addr as usize as isize`: the two's complement reading of the bits.
AsIsize(u) == IF u > IsizeMax THEN u - PtrMod ELSE u

\* SharedLibrary::virtual_memory_bias: the assertion, then the cast.
virtual_memory_bias(addr) ==
    IF addr < IsizeMax
    THEN [panicked |-> FALSE, bias |-> AsIsize(addr)]
    ELSE [panicked |-> TRUE]

\* ------------------------------------------------- inputs and idle states
\* Segment type codes handed to the accessors: every code the source names
\* and four it does not.
SegTypeInputs ==
    {PT_NULL, PT_LOAD, PT_DYNAMIC, PT_INTERP, PT_NOTE, PT_SHLIB, PT_PHDR,
     PT_TLS, PT_NUM, PT_LOOS, PT_GNU_EH_FRAME, PT_GNU_STACK, PT_GNU_RELRO,
     PT_NUM + 1, PT_LOOS + 1, PT_GNU_RELRO + 1}
\* Flag masks: every combination of PF_X (1), PF_W (2), PF_R (4).
FlagInputs == 0 .. 7
\* Base addresses around the signed boundary of the pointer width.
AddrInputs == {0, 4, IsizeMax - 1, IsizeMax, IsizeMax + 1, UsizeMax}

MkPhdr(t, f, o, fs, a) ==
    [p_type |-> t, p_flags |-> f, p_offset |-> o, p_filesz |-> fs, p_align |-> a]

Threads == {"A", "B"}

SegIdle ==
    /\ phdr = MkPhdr(PT_NULL, 0, 0, 0, 0)
    /\ lib_addr = 0
    /\ seg_name = None
    /\ seg_is_code = None
    /\ bias = None

EachIdle ==
    /\ objects = <<>>
    /\ pc = [t \in Threads |-> "idle"]
    /\ cursor = [t \in Threads |-> 1]
    /\ state_panic = [t \in Threads |-> None]
    /\ rets = [t \in Threads |-> <<>>]
    /\ visited = [t \in Threads |-> <<>>]
    /\ raised = [t \in Threads |-> None]
    /\ stopped_amid = [t \in Threads |-> FALSE]

IdIdle ==
    /\ overflow_checks = FALSE
    /\ id_addr = 0
    /\ headers = <<>>
    /\ mem = <<>>
    /\ id_pc = "idle"
    /\ seg_idx = 1
    /\ alignment = 0
    /\ offset = 0
    /\ end = 0
    /\ id_result = None
    /\ read_log = {}
    /\ last_read = None
    /\ wrapped = FALSE

\* ----------------------------------------- SpecSeg: the accessors applied
InitSeg ==
    /\ phdr \in {MkPhdr(t, f, 0, 0, 4) : t \in SegTypeInputs, f \in FlagInputs}
    /\ lib_addr \in AddrInputs
    /\ seg_name = None
    /\ seg_is_code = None
    /\ bias = None
    /\ EachIdle
    /\ IdIdle

CallName ==
    /\ seg_name = None
    /\ seg_name' = Some(name(phdr))
    /\ UNCHANGED <<phdr, lib_addr, seg_is_code, bias, each_vars, id_vars>>

CallIsCode ==
    /\ seg_is_code = None
    /\ seg_is_code' = Some(is_code(phdr))
    /\ UNCHANGED <<phdr, lib_addr, seg_name, bias, each_vars, id_vars>>

CallVirtualMemoryBias ==
    /\ bias = None
    /\ bias' = Some(virtual_memory_bias(lib_addr))
    /\ UNCHANGED <<phdr, lib_addr, seg_name, seg_is_code, each_vars, id_vars>>

NextSeg == CallName \/ CallIsCode \/ CallVirtualMemoryBias

SpecSeg == InitSeg /\ [][NextSeg]_vars

\* ------------------------------------------------ SpecEach: the enumerator
\* What current_exe() can answer.
ExePath == "/usr/bin/app"
CurrentExeResults == {[ok |-> TRUE, path |-> ExePath], [ok |-> FALSE]}
NotCalled == [ok |-> FALSE, called |-> FALSE]

\* What one invocation of the visitor can do: return a control value or
\* panic with a payload (the payload carries the caller and the visit).
VisitorOutcomes(t, i) ==
    {[kind |-> "Continue"], [kind |-> "Break"],
     [kind |-> "Panic", payload |-> <<t, i>>]}
\* The visitor was not reached.
NotInvoked == [kind |-> "NotInvoked"]

\* The panic message of println! on a failed write.
PrintPanic == "failed printing to stdout"

\* SharedLibrary::new, lines 139-154: the two println! calls, which panic
\* when standard output cannot be written, then the name with the
\* executable path as fallback, and the four fields.
NewMutant_NoFallback(info, size, exe, stdout_ok) ==
    IF ~stdout_ok THEN [panicked |-> TRUE, payload |-> PrintPanic]
    ELSE [panicked |-> FALSE,
          lib |-> [size |-> size,
                   addr |-> info.dlpi_addr,
                   name |-> info.dlpi_name,
                   headers |-> info.dlpi_phdr]]
new(info, size, exe, stdout_ok) ==
    IF ~stdout_ok THEN [panicked |-> TRUE, payload |-> PrintPanic]
    ELSE [panicked |-> FALSE,
          lib |-> [size |-> size,
                   addr |-> info.dlpi_addr,
                   name |-> IF info.dlpi_name = ""
                            THEN (IF exe.ok THEN exe.path ELSE info.dlpi_name)
                            ELSE info.dlpi_name,
                   headers |-> info.dlpi_phdr]]

\* The closure handed to catch_unwind, lines 165-170: new(), and the visitor
\* on what it made.  A panic of new() is a panic of the closure (tag marks
\* the callback it came from).
closure(made, out, tag) ==
    IF made.panicked
    THEN [kind |-> "Panic", payload |-> Append(tag, made.payload)]
    ELSE out

\* panic::catch_unwind around the closure.
catch_unwind(out) ==
    IF out.kind = "Panic"
    THEN [ok |-> FALSE, err |-> out.payload]
    ELSE [ok |-> TRUE, val |-> out.kind]

\* The match of SharedLibrary::callback: the native return code and the
\* new content of state.panic.
callback(state, out) ==
    LET r == catch_unwind(out) IN
    IF r.ok /\ r.val = "Continue" THEN [ret |-> CONTINUE, panic |-> state]
    ELSE IF r.ok THEN [ret |-> BREAK, panic |-> state]
    ELSE [ret |-> BREAK, panic |-> Some(r.err)]

\* Loader lists: up to MaxObjects objects, each with an empty or a real name.
ObjectNames == {"", "libc.so.6"}
ObjectLists ==
    UNION {[1 .. n -> ObjectNames] : n \in 0 .. MaxObjects}
MkObjects(names) ==
    [i \in 1 .. Len(names) |->
        [dlpi_name |-> names[i], dlpi_addr |-> 4 * i,
         dlpi_phdr |-> <<MkPhdr(PT_LOAD, 5, 0, 32, 4)>>]]

InitEach ==
    /\ objects \in {MkObjects(ns) : ns \in ObjectLists}
    /\ pc = [t \in Threads |-> "idle"]
    /\ cursor = [t \in Threads |-> 1]
    /\ state_panic = [t \in Threads |-> None]
    /\ rets = [t \in Threads |-> <<>>]
    /\ visited = [t \in Threads |-> <<>>]
    /\ raised = [t \in Threads |-> None]
    /\ stopped_amid = [t \in Threads |-> FALSE]
    /\ SegIdle
    /\ IdIdle

\* The IterState a call hands to dl_iterate_phdr and reads back afterwards:
\* a local of that call's own each() frame.
StateOfMutant_Static(t) == "A"
StateOf(t) == t

\* each(), lines 253-259: a fresh IterState, then into dl_iterate_phdr.
EachBegin(t) ==
    /\ pc[t] = "idle"
    /\ pc' = [pc EXCEPT ![t] = "native"]
    /\ state_panic' = [state_panic EXCEPT ![StateOf(t)] = None]
    /\ cursor' = [cursor EXCEPT ![t] = 1]
    /\ UNCHANGED <<objects, rets, visited, raised, stopped_amid, seg_vars, id_vars>>

\* Call u is inside the native iteration, between two of its callbacks.
MidIteration(u) ==
    /\ pc[u] = "native"
    /\ Len(visited[u]) >= 1
    /\ cursor[u] <= Len(objects)

\* dl_iterate_phdr calls SharedLibrary::callback on the next object with the
\* caller's own state pointer, and stops at a nonzero return code.  The
\* visitor runs only if new() did not panic.
LoaderCallback(t) ==
    /\ pc[t] = "native"
    /\ cursor[t] <= Len(objects)
    /\ LET info == objects[cursor[t]] IN
       \E stdout_ok \in BOOLEAN :
       \E exe \in (IF stdout_ok /\ info.dlpi_name = ""
                   THEN CurrentExeResults ELSE {NotCalled}),
          out \in (IF stdout_ok THEN VisitorOutcomes(t, cursor[t]) ELSE {NotInvoked}) :
          LET made == new(info, InfoSize, exe, stdout_ok)
              ran == closure(made, out, <<t, cursor[t]>>)
              res == callback(state_panic[StateOf(t)], ran)
          IN /\ visited' = [visited EXCEPT ![t] =
                    IF made.panicked THEN @
                    ELSE Append(@, [index |-> cursor[t], lib |-> made.lib,
                                    exe |-> exe, out |-> out])]
             /\ stopped_amid' = [stopped_amid EXCEPT ![t] =
                    res.ret # 0 /\ \E u \in Threads \ {t} : MidIteration(u)]
             /\ state_panic' = [state_panic EXCEPT ![StateOf(t)] = res.panic]
             /\ rets' = [rets EXCEPT ![t] = Append(@, res.ret)]
             /\ IF res.ret # 0
                THEN /\ pc' = [pc EXCEPT ![t] = "native_returned"]
                     /\ UNCHANGED cursor
                ELSE /\ cursor' = [cursor EXCEPT ![t] = @ + 1]
                     /\ UNCHANGED pc
    /\ UNCHANGED <<objects, raised, seg_vars, id_vars>>

\* dl_iterate_phdr returns once the list is exhausted.
LoaderReturn(t) ==
    /\ pc[t] = "native"
    /\ cursor[t] > Len(objects)
    /\ pc' = [pc EXCEPT ![t] = "native_returned"]
    /\ UNCHANGED <<objects, cursor, state_panic, rets, visited, raised,
                   stopped_amid, seg_vars, id_vars>>

\* each(), lines 262-264: re-raise the captured panic, or return.
resume_unwind(state) == state

EachEnd(t) ==
    /\ pc[t] = "native_returned"
    /\ raised' = [raised EXCEPT ![t] = resume_unwind(state_panic[StateOf(t)])]
    /\ pc' = [pc EXCEPT ![t] =
                 IF resume_unwind(state_panic[StateOf(t)]).some THEN "unwound" ELSE "returned"]
    /\ UNCHANGED <<objects, cursor, state_panic, rets, visited, stopped_amid,
                   seg_vars, id_vars>>

NextEach ==
    \E t \in Threads :
        EachBegin(t) \/ LoaderCallback(t) \/ LoaderReturn(t) \/ EachEnd(t)

SpecEach == InitEach /\ [][NextEach]_vars

\* ------------------------------------------------- claims on the enumerator
Finished(t) == pc[t] \in {"returned", "unwound"}
NativeDone(t) == pc[t] \in {"native_returned", "returned", "unwound"}
Kinds(t) == {visited[t][i].out.kind : i \in 1 .. Len(visited[t])}
\* The visits of call t that did not answer Continue.
Stops(t) == {i \in 1 .. Len(visited[t]) : visited[t][i].out.kind # "Continue"}

\* C1: a visitor that does not panic is invoked on the loader's objects in
\* the loader's order, once each, up to and including the first object it
\* answers Break for and on no later one: k visits when the first Break is
\* the k-th answer, all n objects when it never answers Break.
C1_VisitsUpToFirstBreak ==
    \A t \in Threads :
        "Panic" \notin Kinds(t) =>
            /\ \A i \in 1 .. Len(visited[t]) :
                   /\ i <= Len(objects)
                   /\ visited[t][i].index = i
                   /\ visited[t][i].lib.addr = objects[i].dlpi_addr
            /\ \A i \in Stops(t) : i = Len(visited[t])
            /\ NativeDone(t) =>
                   IF Stops(t) = {} THEN Len(visited[t]) = Len(objects)
                   ELSE \E k \in Stops(t) :
                            /\ visited[t][k].out.kind = "Break"
                            /\ Len(visited[t]) = k

\* C2: when the visitor panics on the k-th object the callback still returns
\* the nonzero stop code, no later object is visited, and each() raises that
\* very payload, and only once the native call has returned; a call none of
\* whose visits panicked returns normally and raises nothing.
C2_PanicCapturedThenReraised ==
    \A t \in Threads :
        /\ \A i \in 1 .. Len(visited[t]) :
               visited[t][i].out.kind = "Panic" =>
                   /\ rets[t][i] # 0
                   /\ i = Len(visited[t])
                   /\ NativeDone(t)
        /\ ~Finished(t) => ~raised[t].some
        /\ Finished(t) =>
               IF "Panic" \in Kinds(t)
               THEN /\ pc[t] = "unwound"
                    /\ raised[t] = Some(visited[t][Len(visited[t])].out.payload)
               ELSE /\ pc[t] = "returned"
                    /\ raised[t] = None

\* C5: the library handed to the visitor carries the OS-provided name when
\* that is non-empty, otherwise the executable path if the lookup succeeded,
\* otherwise the empty name; after a failed lookup the visitor is invoked all
\* the same, the callback answers what the visitor answered, no panic is
\* captured for it, and the loader goes on to the next object.
C5_NameFallback ==
    \A t \in Threads :
        \A i \in 1 .. Len(visited[t]) :
            LET os == objects[visited[t][i].index].dlpi_name
                v == visited[t][i]
            IN /\ os # "" => v.lib.name = os
               /\ (os = "" /\ v.exe.ok) => v.lib.name = ExePath
               /\ (os = "" /\ ~v.exe.ok) =>
                      /\ v.lib.name = ""
                      /\ v.index = i
                      /\ Len(rets[t]) >= i
                      /\ rets[t][i] = 0 <=> v.out.kind = "Continue"
                      /\ (v.out.kind # "Panic" /\ i = Len(rets[t])) =>
                             ~state_panic[t].some
                      /\ (v.out.kind = "Continue" /\ NativeDone(t)
                              /\ i < Len(objects)) => Len(rets[t]) > i

\* C5 witness: one enumeration saw an unnamed object whose path lookup
\* succeeded, then an unnamed object whose lookup failed, then a third
\* object, and returned.
C5_Witness ==
    \E t \in Threads :
        /\ pc[t] = "returned"
        /\ Len(visited[t]) = 3
        /\ objects[1].dlpi_name = ""
        /\ visited[t][1].exe.ok
        /\ visited[t][1].lib.name = ExePath
        /\ objects[2].dlpi_name = ""
        /\ ~visited[t][2].exe.ok
        /\ visited[t][2].lib.name = ""
        /\ visited[t][3].lib.name = "libc.so.6"

\* A callback of call t panicked before it reached the visitor.
PanickedBeforeVisit(t) == Len(rets[t]) > Len(visited[t])
\* A callback of call t captured a panic.
OwnPanic(t) == "Panic" \in Kinds(t) \/ PanickedBeforeVisit(t)

\* C9: of two concurrent each() calls, a Break or panic in one call's
\* callbacks ends only that call: each call's visits and outcome are those
\* its own callbacks give (all objects visited unless one of its own
\* callbacks stopped it), and a panic is raised only from the call in whose
\* callback it arose.
C9_CallsAreIndependent ==
    \A t \in Threads :
        /\ raised[t].some => raised[t].val[1] = t
        /\ \A i \in 1 .. Len(visited[t]) :
               /\ visited[t][i].index = i
               /\ i < Len(visited[t]) => visited[t][i].out.kind = "Continue"
        /\ Finished(t) =>
               /\ (Stops(t) = {} /\ ~PanickedBeforeVisit(t)) =>
                      Len(visited[t]) = Len(objects)
               /\ raised[t].some <=> OwnPanic(t)
               /\ pc[t] = "unwound" <=> OwnPanic(t)

\* C9 witness: call B was stopped by a panic on its first visit, between two
\* callbacks of call A, and re-raised it; A visited all three objects and
\* returned normally.
C9_Witness ==
    /\ Len(objects) = 3
    /\ stopped_amid["B"]
    /\ pc["B"] = "unwound"
    /\ Len(visited["B"]) = 1
    /\ raised["B"] = Some(<<"B", 1>>)
    /\ pc["A"] = "returned"
    /\ Len(visited["A"]) = 3
    /\ raised["A"] = None

\* ------------------------------------------------------ SpecId: id()
\* usize addition: the sum modulo the pointer width, and whether it
\* overflowed (a build with overflow checks panics there).
Add(a, b) == [ovf |-> a + b > UsizeMax, val |-> (a + b) % PtrMod]

\* fn align(alignment, offset), lines 191-196.
align(a, off) ==
    LET diff == off % a IN
    IF diff # 0 THEN Add(off, a - diff) ELSE [ovf |-> FALSE, val |-> off]

\* Lines 205-211: the alignment a NOTE segment is scanned with; skip = TRUE
\* when the segment is passed over.
NormalizeMutant_AcceptAny(p_align) ==
    IF p_align < 4 THEN [skip |-> FALSE, alignment |-> 4]
    ELSE [skip |-> FALSE, alignment |-> p_align]
NormalizeAlign(p_align) ==
    IF p_align < 4 THEN [skip |-> FALSE, alignment |-> 4]
    ELSE IF p_align # 4 /\ p_align # 8 THEN [skip |-> TRUE, alignment |-> p_align]
    ELSE [skip |-> FALSE, alignment |-> p_align]

\* The image: 4-byte words by word index, little-endian.  A word is given
\* its content when it is first read and keeps it.
NoteWords == {0, 3}
WordIx(a) == (a % PtrMod) \div 4
ByteAt(m, a) == (m[WordIx(a)] \div (256 ^ (a % 4))) % 256
\* An Elf32_Word field read through the Nhdr32 reference: the four bytes
\* from byte address a on, little-endian, whatever words they lie in.
ReadWord(m, a) ==
    ByteAt(m, a) + 256 * ByteAt(m, a + 1) + 65536 * ByteAt(m, a + 2)
        + 16777216 * ByteAt(m, a + 3)
\* The words the 12 header bytes from a on lie in.
HeaderWords(a) == {WordIx(a + k) : k \in 0 .. NhdrSize - 1}
\* Line 219 makes a reference to an Nhdr32 (alignment 4) of the address; a
\* build with debug assertions aborts on a misaligned one.
Misaligned(a) == a % 4 # 0
DescWords(ptr, n) == {WordIx(ptr + k) : k \in 0 .. n - 1}
\* Every image that agrees with m and also defines the words ws.
Ext(m, ws) == {m @@ f : f \in [ws \ DOMAIN m -> NoteWords]}

\* slice::from_raw_parts(ptr, n).to_vec(), lines 223 and 228.
to_vec(m, ptr, n) == [k \in 1 .. n |-> ByteAt(m, ptr + k - 1)]

\* The window a NOTE segment declares: file size bytes from the base address
\* plus the file offset.  A read outside it is out of range.
OutOfWindow(h, addrs) ==
    LET lo == id_addr + h.p_offset
        hi == lo + h.p_filesz
    IN \E a \in addrs : ~(\/ (lo <= a /\ a < hi)
                          \/ (lo <= a + PtrMod /\ a + PtrMod < hi))
Bytes(ptr, n) == {(ptr + k) % PtrMod : k \in 0 .. n - 1}

\* Lines 213-214: offset and end of the walk over one NOTE segment.
SegmentBounds(h) ==
    LET e == Add(h.p_offset, h.p_filesz) IN
    [ovf |-> e.ovf, offset |-> h.p_offset, end |-> e.val]

\* Lines 219-227, one pass of the while loop over the record at off, given
\* an image m that defines the record's header words.
TypeMutant_AbiTag(t) == t = 1
IsBuildId(t) == t = NT_GNU_BUILD_ID

NoteStep(m, a, off) ==
    LET hp == Add(id_addr, off)
        n_namesz == ReadWord(m, hp.val)
        n_descsz == ReadWord(m, hp.val + 4)
        n_type == ReadWord(m, hp.val + 8)
        o1 == Add(off, NhdrSize)
        o2 == Add(o1.val, n_namesz)
        o3 == align(a, o2.val)
        desc == (id_addr + o3.val) % PtrMod
        o4 == Add(o3.val, n_descsz)
        o5 == align(a, o4.val)
    IN [ovf |-> hp.ovf \/ o1.ovf \/ o2.ovf \/ o3.ovf \/ o4.ovf \/ o5.ovf,
        hdr |-> hp.val, desc |-> desc, n_descsz |-> n_descsz,
        match |-> IsBuildId(n_type), next |-> o5.val]

\* Header tables: a LOAD segment, NOTE segments at the bottom of the image
\* with alignments below 4, 4, 8 and 16, a NOTE segment at a file offset
\* that is no multiple of 4, and two NOTE segments with file offsets near
\* the top of the address space: one whose walk runs over the top, one
\* whose end does.
NoteAligns == {1, 4, 8, 16}
PhdrInputs ==
    {MkPhdr(PT_LOAD, 5, 0, 32, 4), MkPhdr(PT_NOTE, 4, 0, 12, 4)} \cup
    {MkPhdr(PT_NOTE, 4, 0, 32, al) : al \in NoteAligns} \cup
    {MkPhdr(PT_NOTE, 4, 2, 12, 4)} \cup
    {MkPhdr(PT_NOTE, 4, PtrMod - 24, 12, 8), MkPhdr(PT_NOTE, 4, PtrMod - 24, 32, 4)}
HeaderTables == UNION {[1 .. n -> PhdrInputs] : n \in 0 .. MaxSegs}
\* Base addresses of a mapped object: a multiple of 8 above the bottom of
\* the address space, so that base + offset stays in range for the offsets
\* of an image and runs over the top for an offset near the top.
IdAddrInputs == {PtrMod \div 4, (PtrMod \div 4) + 8}
\* A field read at a misaligned address has its low byte in bits 16 and up,
\* a value the scaled pointer width cannot hold next to an offset; tables
\* with a misaligned NOTE offset are drawn for the build that aborts on the
\* misaligned reference before any field is read.
AlignedOffsets(hdrs) ==
    \A i \in 1 .. Len(hdrs) : hdrs[i].p_type = PT_NOTE => ~Misaligned(hdrs[i].p_offset)

InitId ==
    /\ overflow_checks \in BOOLEAN
    /\ id_addr \in IdAddrInputs
    /\ headers \in HeaderTables
    /\ overflow_checks \/ AlignedOffsets(headers)
    /\ mem = <<>>
    /\ id_pc = "idle"
    /\ seg_idx = 1
    /\ alignment = 0
    /\ offset = 0
    /\ end = 0
    /\ id_result = None
    /\ read_log = {}
    /\ last_read = None
    /\ wrapped = FALSE
    /\ SegIdle
    /\ EachIdle

\* id() is called: self.segments() starts at the head of the table.
IdBegin ==
    /\ id_pc = "idle"
    /\ id_pc' = "segments"
    /\ seg_idx' = 1
    /\ UNCHANGED <<overflow_checks, id_addr, headers, mem, alignment, offset,
                   end, id_result, read_log, last_read, wrapped, seg_vars,
                   each_vars>>

\* Lines 199-214: the next segment of the table.
IdSegment ==
    /\ id_pc = "segments"
    /\ seg_idx <= Len(headers)
    /\ LET h == headers[seg_idx]
           na == NormalizeAlign(h.p_align)
           b == SegmentBounds(h)
       IN IF h.p_type # PT_NOTE \/ na.skip
          THEN /\ seg_idx' = seg_idx + 1
               /\ UNCHANGED <<id_pc, alignment, offset, end, wrapped>>
          ELSE IF overflow_checks /\ b.ovf
          THEN /\ id_pc' = "panicked"
               /\ alignment' = na.alignment
               /\ UNCHANGED <<seg_idx, offset, end, wrapped>>
          ELSE /\ id_pc' = "notes"
               /\ alignment' = na.alignment
               /\ offset' = b.offset
               /\ end' = b.end
               /\ wrapped' = (wrapped \/ b.ovf)
               /\ UNCHANGED seg_idx
    /\ UNCHANGED <<overflow_checks, id_addr, headers, mem, id_result,
                   read_log, last_read, seg_vars, each_vars>>

\* Line 216, the loop condition fails: on to the next segment.
IdSegmentEnd ==
    /\ id_pc = "notes"
    /\ offset >= end
    /\ id_pc' = "segments"
    /\ seg_idx' = seg_idx + 1
    /\ UNCHANGED <<overflow_checks, id_addr, headers, mem, alignment, offset,
                   end, id_result, read_log, last_read, wrapped, seg_vars,
                   each_vars>>

\* Lines 216-229, one pass of the loop: read the record at offset, step over
\* it, return its descriptor if it is the build id.  A read outside the
\* segment's window is out of range: it may fault or yield whatever is there.
IdRecord ==
    /\ id_pc = "notes"
    /\ offset < end
    /\ Cardinality({r \in read_log : r.seg = seg_idx}) < MaxRecords
    /\ LET hp == Add(id_addr, offset)
           rec == [seg |-> seg_idx, off |-> offset]
       IN IF overflow_checks /\ hp.ovf
          THEN /\ id_pc' = "panicked"
               /\ UNCHANGED <<mem, offset, id_result, read_log, last_read, wrapped>>
          ELSE IF overflow_checks /\ Misaligned(hp.val)
          THEN /\ id_pc' = "aborted"
               /\ UNCHANGED <<mem, offset, id_result, read_log, last_read, wrapped>>
          ELSE \/ /\ OutOfWindow(headers[seg_idx], Bytes(hp.val, NhdrSize))
                  /\ id_pc' = "fault"
                  /\ UNCHANGED <<mem, offset, id_result, read_log, last_read,
                                 wrapped>>
               \/ \E m2 \in Ext(mem, HeaderWords(hp.val)) :
                     LET st == NoteStep(m2, alignment, offset) IN
                     /\ read_log' = read_log \cup {rec}
                     /\ last_read' = Some(rec)
                     /\ wrapped' = (wrapped \/ (~overflow_checks /\ st.ovf))
                     /\ IF overflow_checks /\ st.ovf
                        THEN /\ id_pc' = "panicked"
                             /\ mem' = m2
                             /\ UNCHANGED <<offset, id_result>>
                        ELSE IF st.match
                        THEN \/ /\ OutOfWindow(headers[seg_idx],
                                               Bytes(st.desc, st.n_descsz))
                                /\ id_pc' = "fault"
                                /\ mem' = m2
                                /\ UNCHANGED <<offset, id_result>>
                             \/ \E m3 \in Ext(m2, DescWords(st.desc, st.n_descsz)) :
                                   /\ id_pc' = "returned"
                                   /\ id_result' = Some(to_vec(m3, st.desc, st.n_descsz))
                                   /\ mem' = m3
                                   /\ UNCHANGED offset
                        ELSE /\ offset' = st.next
                             /\ mem' = m2
                             /\ UNCHANGED <<id_pc, id_result>>
    /\ UNCHANGED <<overflow_checks, id_addr, headers, seg_idx, alignment, end,
                   seg_vars, each_vars>>

\* Line 234: the table is exhausted, id() returns None.
IdReturnNone ==
    /\ id_pc = "segments"
    /\ seg_idx > Len(headers)
    /\ id_pc' = "returned"
    /\ id_result' = None
    /\ UNCHANGED <<overflow_checks, id_addr, headers, mem, seg_idx, alignment,
                   offset, end, read_log, last_read, wrapped, seg_vars,
                   each_vars>>

NextId == IdBegin \/ IdSegment \/ IdSegmentEnd \/ IdRecord \/ IdReturnNone

SpecId == InitId /\ [][NextId]_vars

\* id() as a function of the header table and the image: the same walk,
\* run to its end.  A walk that passes more records than there are aligned
\* offsets has come back to one and never ends ("diverges"); "unread" is a
\* walk that needs a word the image m does not define.
Fuel == (PtrMod \div 4) + 1
Outcome(st, res) == [status |-> st, result |-> res]

RECURSIVE IdNotes(_, _, _, _, _)
IdNotes(m, a, off, e, fuel) ==
    IF off >= e THEN Outcome("next", None)
    ELSE IF fuel = 0 THEN Outcome("diverges", None)
    ELSE LET hp == Add(id_addr, off) IN
         IF overflow_checks /\ hp.ovf THEN Outcome("panicked", None)
         ELSE IF overflow_checks /\ Misaligned(hp.val) THEN Outcome("aborted", None)
         ELSE IF ~(HeaderWords(hp.val) \subseteq DOMAIN m) THEN Outcome("unread", None)
         ELSE LET st == NoteStep(m, a, off) IN
              IF overflow_checks /\ st.ovf THEN Outcome("panicked", None)
              ELSE IF st.match
              THEN IF DescWords(st.desc, st.n_descsz) \subseteq DOMAIN m
                   THEN Outcome("returned", Some(to_vec(m, st.desc, st.n_descsz)))
                   ELSE Outcome("unread", None)
              ELSE IdNotes(m, a, st.next, e, fuel - 1)

RECURSIVE IdSegments(_, _, _)
IdSegments(m, hdrs, i) ==
    IF i > Len(hdrs) THEN Outcome("returned", None)
    ELSE LET h == hdrs[i]
             na == NormalizeAlign(h.p_align)
             b == SegmentBounds(h)
         IN IF h.p_type # PT_NOTE \/ na.skip THEN IdSegments(m, hdrs, i + 1)
            ELSE IF overflow_checks /\ b.ovf THEN Outcome("panicked", None)
            ELSE LET r == IdNotes(m, na.alignment, b.offset, b.end, Fuel) IN
                 IF r.status = "next" THEN IdSegments(m, hdrs, i + 1) ELSE r

id(hdrs, m) == IdSegments(m, hdrs, 1)

\* The step machine and the function are the same id().
IdStepAgreesWithId ==
    id_pc \in {"returned", "panicked", "aborted"} =>
        id(headers, mem) = Outcome(id_pc, id_result)

\* -------------------------------------------------------- claims on id()
\* The build-id record as the claim describes it, read off the image.
ExpRoundUp(x, a) == (((x + a - 1) \div a) * a) % PtrMod
ExpDefined(addrs) == \A x \in addrs : ((x % PtrMod) \div 4) \in DOMAIN mem
ExpByte(x) == (mem[(x % PtrMod) \div 4] \div (256 ^ (x % 4))) % 256
ExpU32(x) == ExpByte(x) + 256 * (ExpByte(x + 1) + 256 * (ExpByte(x + 2) + 256 * ExpByte(x + 3)))
ExpAlign(h) == IF h.p_align < 4 THEN 4 ELSE h.p_align
ExpAccepted(h) == h.p_type = PT_NOTE /\ ExpAlign(h) \in {4, 8}
ExpUndefined == [some |-> FALSE, undefined |-> TRUE]

RECURSIVE ExpFirstBuildId(_, _, _)
ExpFirstBuildId(h, pos, fuel) ==
    LET rec == id_addr + pos IN
    IF pos >= (h.p_offset + h.p_filesz) % PtrMod THEN [ok |-> TRUE, found |-> FALSE]
    ELSE IF fuel = 0 \/ ~ExpDefined({rec + k : k \in 0 .. 11}) THEN [ok |-> FALSE]
    ELSE LET namesz == ExpU32(rec)
             descsz == ExpU32(rec + 4)
             type == ExpU32(rec + 8)
             dpos == ExpRoundUp(pos + 12 + namesz, ExpAlign(h))
         IN IF type = 3
            THEN IF ExpDefined({id_addr + dpos + k : k \in 0 .. descsz - 1})
                 THEN [ok |-> TRUE, found |-> TRUE,
                       desc |-> [k \in 1 .. descsz |-> ExpByte(id_addr + dpos + k - 1)]]
                 ELSE [ok |-> FALSE]
            ELSE ExpFirstBuildId(h, ExpRoundUp(dpos + descsz, ExpAlign(h)), fuel - 1)

RECURSIVE ExpId(_)
ExpId(i) ==
    IF i > Len(headers) THEN None
    ELSE IF ~ExpAccepted(headers[i]) THEN ExpId(i + 1)
    ELSE LET r == ExpFirstBuildId(headers[i], headers[i].p_offset, Fuel) IN
         IF ~r.ok THEN ExpUndefined
         ELSE IF r.found THEN Some(r.desc)
         ELSE ExpId(i + 1)

RecordType(r) == ExpU32(id_addr + r.off + 8)

\* C3: id() returns the descriptor of the first type-3 record met when the
\* segments are taken in table order and, in each NOTE segment of accepted
\* alignment, the records from the file offset on: descsz bytes from the
\* position after the 12-byte header and the name, rounded up to the
\* alignment; no record is read after the match; with no such record the
\* result is none.  Unless an addition wrapped, the records are read in
\* increasing offset order, all of them below file offset + file size.
C3_FirstBuildIdRecord ==
    /\ id_pc = "returned" =>
           /\ id_result = ExpId(1)
           /\ \A r \in read_log :
                  /\ \E r0 \in read_log :
                         r0.seg = r.seg /\ r0.off = headers[r.seg].p_offset
                  /\ RecordType(r) = 3 => (id_result.some /\ last_read = Some(r))
           /\ id_result.some => (last_read.some /\ RecordType(last_read.val) = 3)
    /\ ~wrapped =>
           \A r \in read_log :
               /\ headers[r.seg].p_offset <= r.off
               /\ r.off < headers[r.seg].p_offset + headers[r.seg].p_filesz
               /\ r.seg < last_read.val.seg
                      \/ (r.seg = last_read.val.seg /\ r.off <= last_read.val.off)

\* C3 witness: id() at the second base address stepped over a first record and
\* returned the three descriptor bytes 3,0,0 of the second one, a record
\* with a three-byte name in a segment of alignment 8.
C3_Witness ==
    /\ id_pc = "returned"
    /\ id_addr = (PtrMod \div 4) + 8
    /\ id_result = Some(<<3, 0, 0>>)
    /\ Cardinality(read_log) = 2
    /\ alignment = 8
    /\ ExpU32(id_addr + last_read.val.off) = 3

RemoveAt(q, k) == [i \in 1 .. Len(q) - 1 |-> IF i < k THEN q[i] ELSE q[i + 1]]

\* C4: a NOTE segment's alignment below 4 is raised to 4; a NOTE segment
\* whose alignment is then neither 4 nor 8 has none of its records read and
\* does not fail the call, and id() ends as it does on the table without
\* that segment.
C4_BadAlignmentSkipped ==
    /\ id_pc = "notes" =>
           /\ alignment = ExpAlign(headers[seg_idx])
           /\ alignment \in {4, 8}
    /\ \A r \in read_log : ExpAccepted(headers[r.seg])
    /\ id_pc \in {"returned", "panicked", "aborted"} =>
           \A k \in 1 .. Len(headers) :
               (headers[k].p_type = PT_NOTE /\ ~ExpAccepted(headers[k])) =>
                   id(RemoveAt(headers, k), mem) = Outcome(id_pc, id_result)

\* C4 witness: the first segment is a NOTE segment of alignment 16, the
\* second a NOTE segment of alignment 1, and id() returned a build id (found
\* in the second, scanned with alignment 4).
C4_Witness ==
    /\ id_pc = "returned"
    /\ Len(headers) = 2
    /\ headers[1].p_type = PT_NOTE /\ headers[1].p_align = 16
    /\ headers[2].p_type = PT_NOTE /\ headers[2].p_align = 1
    /\ id_result.some
    /\ Len(id_result.val) = 3
    /\ last_read.val.seg = 2
    /\ alignment = 4

\* C10: every pass of the note loop moves the scan offset forward, by at
\* least the 12-byte header; the offset never moves backwards.
C10_OffsetStrictlyIncreases ==
    [][(id_pc = "notes" /\ id_pc' = "notes") => offset' >= offset + 12]_vars

\* ------------------------------------------- claims on the segment view
\* C6: virtual_memory_bias() returns the base address as a Bias for every
\* base address from 0 up to and including the largest signed pointer-width
\* integer, and fails for exactly the larger ones.
C6_BiasOverSignedRange ==
    bias.some =>
        /\ lib_addr <= IsizeMax =>
               (~bias.val.panicked /\ bias.val.bias = lib_addr)
        /\ lib_addr > IsizeMax => bias.val.panicked

\* The label of each segment type code.
CanonicalLabel(t) ==
    CASE t = 0 -> "NULL"
      [] t = 1 -> "LOAD"
      [] t = 2 -> "DYNAMIC"
      [] t = 3 -> "INTERP"
      [] t = 4 -> "NOTE"
      [] t = 5 -> "SHLIB"
      [] t = 6 -> "PHDR"
      [] t = 7 -> "TLS"
      [] t = 8 -> "NUM"
      [] t = 1610612736 -> "LOOS"
      [] t = 1685382480 -> "GNU_EH_FRAME"
      [] t = 1685382481 -> "GNU_STACK"
      [] t = 1685382482 -> "GNU_RELRO"
      [] OTHER -> "(unknown segment type)"

\* C7: name() is the canonical label of the segment's type code, and
\* "(unknown segment type)" for every code without one.
C7_CanonicalName ==
    seg_name.some => seg_name.val = CanonicalLabel(phdr.p_type)

\* C8: is_code() is true exactly when the segment's type is LOAD and bit 0x1
\* of its flags is set.
C8_IsCodeIffLoadAndExecute ==
    seg_is_code.some =>
        (seg_is_code.val <=>
            (phdr.p_type = 1 /\ \E k \in 0 .. phdr.p_flags : phdr.p_flags = 2 * k + 1))

\* C8 witness: is_code() answered true for a LOAD segment with flags R+X.
C8_Witness ==
    /\ seg_is_code = Some(TRUE)
    /\ phdr.p_type = PT_LOAD
    /\ phdr.p_flags = 5

====
